---- MODULE Spec2Model ----
(***************************************************************************)
(* A model of the ginx middleware helpers (packages zlog, bind, errors)    *)
(* running in a gin handler chain.  One gin.Context is modelled: the chain *)
(* of handlers, gin's index into it, the request, the response writer and  *)
(* the request-scoped storage.  Each handler of the chain is one action;  *)
(* zlog.Logger, which calls c.Next() in its middle, is two: the part up    *)
(* to c.Next() and the part after c.Next() has returned.                   *)
(***************************************************************************)
EXTENDS Integers, Sequences, FiniteSets, TLC

VARIABLES
    \* ---- the gin engine and the gin.Context of the request being served
    pc,              \* "setup" (routes not registered), "idle", "serving", "done",
                     \* or the panic that ended the program
    route,           \* the handlers registered for the route
    handlers,        \* c.handlers: the chain of the request
    index,           \* c.index (gin: -1 before the first c.Next())
    frames,          \* Logger invocations waiting for their c.Next() to return
    ran,             \* the positions of the handlers that were invoked, in order
    reqMethod,       \* c.Request.Method
    reqCType,        \* the request's Content-Type header
    reqQuery,        \* the request's query parameters for the target's field
    reqBody,         \* c.Request.Body: <<>> is nil, else <<reader>>
    sent,            \* the bytes the client sent as the body
    reqLoggers,      \* c.Request.Context(): the loggerKey values, innermost last
    keys,            \* c.Keys: the request-scoped storage
    heap,            \* the target instances allocated for the request
    header,          \* the X-Request-ID response header (NoId: not set)
    status,          \* c.Writer.Status()
    written,         \* c.Writer.Written(): the status line was sent
    respBody,        \* the JSON values written to the response body, in order
    ctxErrors,       \* c.Errors
    seen,            \* what the endpoint handler read from the request body
    binds,           \* per bind handler invoked: where io.ReadAll / ShouldBind left it
    calls,           \* the AbortWithError / AbortWith calls made, with what they returned
    \* ---- package zlog
    globalRequestLevel,
    globalResponseLevel,
    out,             \* the records written to the log output, in order
    \* ---- package bind
    defaultKey,
    defaultAbort,
    defaultResponse,
    defaultDetail,
    defaultCode,
    \* ---- package errors
    detail

\* what ServeHTTP fixes for the whole request
reqVars == <<handlers, reqMethod, reqCType, reqQuery, sent>>

\* the response writer
respVars == <<status, written, respBody>>

\* what the bind middleware and the endpoint handler leave behind
bindOut == <<reqBody, keys, heap, ctxErrors, seen, binds>>

ctxVars == <<reqVars, index, frames, ran, reqLoggers, header, respVars, bindOut, calls>>

zlogVars == <<globalRequestLevel, globalResponseLevel>>

bindVars == <<defaultKey, defaultAbort, defaultResponse, defaultDetail, defaultCode>>

vars == <<pc, route, ctxVars, zlogVars, out, bindVars, detail>>

-----------------------------------------------------------------------------
\* Bounds of the model
MaxDown == 2         \* handlers of a chain after zlog.Logger
NumIds  == 2         \* distinct request identifiers the random source yields
MaxBody == 3         \* bytes of a request body
MaxOpts == 2         \* option mutators given to one bind.To / bind.As call
MaxChecks == 2       \* handlers of a chain that call the error helper
MaxInstances == 3    \* instances kept when another request is still served
MaxChanged == 2      \* package defaults that differ from their initial values

-----------------------------------------------------------------------------
\* zerolog levels (github.com/rs/zerolog: type Level int8)
TraceLevel == -1
DebugLevel == 0
WarnLevel  == 2

\* net/http and gin constants
StatusOK         == 200
StatusBadRequest == 400
StatusForbidden  == 403
StatusNotFound   == 404
abortIndex       == 63

NoId == 0
Ids  == 1..NumIds

\* The levels handlers are constructed with and records are written at
Levels == {TraceLevel, DebugLevel, WarnLevel}

\* zerolog.GlobalLevel(): zerolog initialises it to TraceLevel and the package
\* documentation asks to leave it unset.
zerologGlobalLevel == TraceLevel

\* log.Logger, the process-wide logger: it carries no "id" field
globalLogger == [id |-> NoId, level |-> TraceLevel]

-----------------------------------------------------------------------------
\* Handlers of a chain.  A handler value is what its constructor captured:
\* lvl for zlog.Logger and zlog.SetLevel, bo (the *bindOpts) for bind.To / bind.As.
NoOpts == [key |-> "", abort |-> FALSE, response |-> FALSE, detail |-> FALSE, code |-> 0]

\* last names the last abort or respond option bind.To / bind.As was called with,
\* t is the reflect.Type bind.To captured (its Kind).
Handler(kind, lvl, bo) ==
    [kind |-> kind, lvl |-> lvl, bo |-> bo, last |-> "none", t |-> "none"]

\* ---- gin.Context ---------------------------------------------------------
\* c.reset() and the request the engine hands to the chain
NoKeys == [k \in {"body", "body2"} |-> 0]

\* gin's Context.Next: c.index++ ; for c.index < len(c.handlers) { handler; c.index++ }.
\* Between two handlers the chain is always about to do c.index++.
Current == index + 1

\* the handler the innermost c.Next() loop invokes next, if any
HasNext == pc = "serving" /\ Current < Len(handlers)

NextHandler == handlers[Current + 1]

\* c.IsAborted()
IsAborted == index >= abortIndex


\* c.reset(), then the engine's c.Next() is about to run; the instances
\* allocated for earlier requests are left alone
ResetRequest(method, ctype, query, body, data) ==
    /\ index' = -1
    /\ frames' = <<>>
    /\ ran' = <<>>
    /\ reqMethod' = method
    /\ reqCType' = ctype
    /\ reqQuery' = query
    /\ reqBody' = body
    /\ sent' = data
    /\ reqLoggers' = <<>>
    /\ keys' = NoKeys
    /\ header' = NoId
    /\ status' = StatusOK
    /\ written' = FALSE
    /\ respBody' = <<>>
    /\ ctxErrors' = <<>>
    /\ seen' = <<>>
    /\ binds' = <<>>
    /\ calls' = <<>>

\* the same, with the instances of earlier requests collected as garbage
ResetContext(method, ctype, query, body, data) ==
    /\ ResetRequest(method, ctype, query, body, data)
    /\ heap' = <<>>

\* a handler at position Current was invoked and returned without c.Abort()
Invoked == /\ index' = Current
           /\ ran' = Append(ran, Current)

\* a handler that forgets c.Abort(): the chain goes on
AbortForgotten == /\ index' = Current
                  /\ ran' = Append(ran, Current)

\* a handler at position Current was invoked and called c.Abort()
InvokedAbort == /\ index' = abortIndex
                /\ ran' = Append(ran, Current)

\* the engine's c.Next() returned: ServeHTTP is over
ServeDone ==
    /\ pc = "serving"
    /\ ~HasNext
    /\ frames = <<>>
    /\ pc' = "done"
    /\ index' = Current
    /\ UNCHANGED <<route, reqVars, frames, ran, reqLoggers, header, respVars, bindOut,
                   zlogVars, out, bindVars, detail, calls>>

\* the engine puts the context back into its pool; the next request resets it
Release ==
    /\ pc = "done"
    /\ pc' = "idle"
    /\ ResetContext("GET", "", <<>>, <<>>, <<>>)
    /\ handlers' = <<>>
    /\ out' = <<>>
    /\ UNCHANGED <<route, zlogVars, bindVars, detail>>

\* ---- zerolog -------------------------------------------------------------
\* a logger without a threshold
shouldAlways(logger, lvl) == TRUE

\* (*Logger).should: lvl passes the logger's threshold and the global level
should(logger, lvl) == ~(lvl < logger.level \/ lvl < zerologGlobalLevel)

\* logger.WithLevel(lvl). ... .Msg(msg): the output after the call.  The record
\* carries the logger's fields (its id); by is the position of the handler
\* that wrote it.
Emit(log, logger, lvl, msg, st, by) ==
    IF should(logger, lvl)
    THEN Append(log, [msg |-> msg, id |-> logger.id, level |-> lvl,
                      status |-> st, by |-> by])
    ELSE log

\* log.With().Str("id", requestID).Logger().Level(lvl)
NewRequestLogger(requestID, lvl) == [globalLogger EXCEPT !.id = requestID, !.level = lvl]

\* ---- package zlog --------------------------------------------------------
\* a GetLogger that always answers log.Logger
GetLoggerAlwaysGlobal(loggers) == globalLogger

\* GetLogger: the logger attached to the request's context, or log.Logger
GetLogger(loggers) ==
    IF loggers # <<>> THEN loggers[Len(loggers)] ELSE globalLogger

\* setLogger: c.Request.WithContext(WithLogger(c.Request.Context(), logger))
setLogger(loggers, logger) == Append(loggers, logger)

\* a SetLevel that attaches the current logger as it is
LevelOverrideIgnored(loggers, lvl) == GetLogger(loggers)

\* a SetLevel that derives its logger from log.Logger
LevelOverrideOfGlobal(loggers, lvl) == [globalLogger EXCEPT !.level = lvl]

\* the logger SetLevel(lvl) attaches: GetLogger(ctx).Level(lvl)
LevelOverride(loggers, lvl) == [GetLogger(loggers) EXCEPT !.level = lvl]

\* Logger(lvl), up to its c.Next()
LoggerEnter ==
    /\ HasNext
    /\ NextHandler.kind = "Logger"
    /\ \E requestID \in Ids :
         LET logger == NewRequestLogger(requestID, NextHandler.lvl) IN
         /\ header' = requestID
         /\ reqLoggers' = setLogger(reqLoggers, logger)
         /\ out' = Emit(out, logger, globalRequestLevel, "REQ", status, Current)
         /\ frames' = Append(frames, [at |-> Current, requestID |-> requestID])
    /\ Invoked
    /\ UNCHANGED <<pc, route, reqVars, respVars, bindOut, zlogVars, bindVars, detail, calls>>

\* Logger(lvl), after its c.Next() returned
LoggerReturn ==
    /\ pc = "serving"
    /\ ~HasNext
    /\ frames # <<>>
    /\ out' = Emit(out, GetLogger(reqLoggers), globalResponseLevel, "RES", status,
                   frames[Len(frames)].at)
    /\ frames' = SubSeq(frames, 1, Len(frames) - 1)
    /\ index' = Current
    /\ UNCHANGED <<pc, route, reqVars, ran, reqLoggers, header, respVars, bindOut,
                   zlogVars, bindVars, detail, calls>>

\* the handler SetLevel(lvl) returns
SetLevel ==
    /\ HasNext
    /\ NextHandler.kind = "SetLevel"
    /\ reqLoggers' = setLogger(reqLoggers, LevelOverride(reqLoggers, NextHandler.lvl))
    /\ Invoked
    /\ UNCHANGED <<pc, route, reqVars, frames, header, respVars, bindOut,
                   zlogVars, out, bindVars, detail, calls>>

\* a handler of the application: GetLogger(ctx).WithLevel(lvl).Msg("TEST")
LogTest ==
    /\ HasNext
    /\ NextHandler.kind = "LogTest"
    /\ out' = Emit(out, GetLogger(reqLoggers), NextHandler.lvl, "TEST", status, Current)
    /\ Invoked
    /\ UNCHANGED <<pc, route, reqVars, frames, reqLoggers, header, respVars, bindOut,
                   zlogVars, bindVars, detail, calls>>

\* the NoRoute handler of the example: a Warn record, then
\* ctx.AbortWithStatus(http.StatusNotFound)
NoRoute ==
    /\ HasNext
    /\ NextHandler.kind = "NoRoute"
    /\ out' = Emit(out, GetLogger(reqLoggers), WarnLevel, "No route", status, Current)
    /\ status' = StatusNotFound
    /\ written' = TRUE
    /\ InvokedAbort
    /\ UNCHANGED <<pc, route, reqVars, frames, reqLoggers, header, respBody, bindOut,
                   zlogVars, bindVars, detail, calls>>

SetGlobalRequestLevel ==
    /\ pc \in {"setup", "idle"}
    /\ \E lvl \in Levels : globalRequestLevel' = lvl
    /\ UNCHANGED <<pc, route, ctxVars, globalResponseLevel, out, bindVars, detail>>

SetGlobalResponseLevel ==
    /\ pc \in {"setup", "idle"}
    /\ \E lvl \in Levels : globalResponseLevel' = lvl
    /\ UNCHANGED <<pc, route, ctxVars, globalRequestLevel, out, bindVars, detail>>

\* ---- the logging specification -------------------------------------------
\* the handlers an application puts after Logger
DownHandlers ==
    {Handler("SetLevel", l, NoOpts) : l \in Levels}
      \cup {Handler("LogTest", l, NoOpts) : l \in Levels}
      \cup {Handler("NoRoute", WarnLevel, NoOpts)}

RECURSIVE SeqsUpTo(_, _)
SeqsUpTo(S, n) ==
    IF n = 0 THEN {<<>>}
    ELSE LET shorter == SeqsUpTo(S, n - 1) IN
         shorter \cup {Append(q, x) : q \in {r \in shorter : Len(r) = n - 1}, x \in S}

\* e.GET("", Logger(lvl), down...)
RegisterLog ==
    /\ pc = "setup"
    /\ \E lvl \in Levels, down \in SeqsUpTo(DownHandlers, MaxDown) :
         route' = <<Handler("Logger", lvl, NoOpts)>> \o down
    /\ pc' = "idle"
    /\ UNCHANGED <<ctxVars, zlogVars, out, bindVars, detail>>

\* e.ServeHTTP(w, req) for a GET without body
ServeLog ==
    /\ pc = "idle"
    /\ pc' = "serving"
    /\ handlers' = route
    /\ ResetContext("GET", "", <<>>, <<>>, <<>>)
    /\ out' = <<>>
    /\ UNCHANGED <<route, zlogVars, bindVars, detail>>

Init ==
    /\ pc = "setup"
    /\ route = <<>>
    /\ handlers = <<>>
    /\ index = -1
    /\ frames = <<>>
    /\ ran = <<>>
    /\ reqMethod = "GET"
    /\ reqCType = ""
    /\ reqQuery = <<>>
    /\ reqBody = <<>>
    /\ sent = <<>>
    /\ reqLoggers = <<>>
    /\ keys = NoKeys
    /\ heap = <<>>
    /\ header = NoId
    /\ status = StatusOK
    /\ written = FALSE
    /\ respBody = <<>>
    /\ ctxErrors = <<>>
    /\ seen = <<>>
    /\ binds = <<>>
    /\ globalRequestLevel = TraceLevel
    /\ globalResponseLevel = DebugLevel
    /\ out = <<>>
    /\ defaultKey = "body"
    /\ defaultAbort = FALSE
    /\ defaultResponse = FALSE
    /\ defaultDetail = FALSE
    /\ defaultCode = StatusBadRequest
    /\ detail = FALSE
    /\ calls = <<>>

Next ==
    \/ RegisterLog
    \/ SetGlobalRequestLevel
    \/ SetGlobalResponseLevel
    \/ ServeLog
    \/ LoggerEnter
    \/ SetLevel
    \/ LogTest
    \/ NoRoute
    \/ LoggerReturn
    \/ ServeDone
    \/ Release

Spec == Init /\ [][Next]_vars

-----------------------------------------------------------------------------
\* ---- request bodies ------------------------------------------------------
\* The bytes of a body.  "{" and "}" open and close a JSON object and "a"
\* stands for the member "test":"a".
Bytes == {"{", "a", "}"}

Bodies == SeqsUpTo(Bytes, MaxBody)

\* a body reader: the bytes it yields, how many were read, whether reading
\* fails once they are read
Reader(data, broken) == [data |-> data, pos |-> 0, broken |-> broken]

\* io.NopCloser(bytes.NewReader(body))
NewReader(body) == Reader(body, FALSE)

\* the bytes a reader still yields
Remaining(r) == SubSeq(r.data, r.pos + 1, Len(r.data))

\* the reader after it was read to its end
Drained(r) == [r EXCEPT !.pos = Len(r.data)]

\* what the next reader of c.Request.Body gets (nothing from a nil body)
BodyBytes(body) == IF body = <<>> THEN <<>> ELSE Remaining(body[1])

\* ---- the binding target --------------------------------------------------
\* TestingBody: struct { Test string `json:"test" binding:"required"` }
ZeroTarget == [Test |-> ""]

\* what the provider function given to As returns: an instance with a default
ProvidedTarget == [Test |-> "d"]

NoError == [kind |-> "none", text |-> "", fields |-> <<>>]

OtherError(text) == [kind |-> "other", text |-> text, fields |-> <<>>]

\* validator.ValidationErrors: one FieldError per failing field
ValidationError(fields) == [kind |-> "validation", text |-> "validation", fields |-> fields]

\* json.NewDecoder(body).Decode(target): the first JSON value of the bytes is
\* decoded into the target; what follows it is not looked at.
decodeJSON(data, target) ==
    IF Len(data) = 0 THEN [err |-> OtherError("EOF"), val |-> target]
    ELSE IF data[1] # "{"
         THEN [err |-> OtherError("invalid character"), val |-> target]
    ELSE IF Len(data) = 1 THEN [err |-> OtherError("unexpected EOF"), val |-> target]
    ELSE IF data[2] = "}" THEN [err |-> NoError, val |-> target]
    ELSE IF data[2] = "{"
         THEN [err |-> OtherError("invalid character"), val |-> target]
    ELSE IF Len(data) = 2 THEN [err |-> OtherError("unexpected EOF"), val |-> target]
    ELSE IF data[3] = "}" THEN [err |-> NoError, val |-> [target EXCEPT !.Test = data[2]]]
    ELSE [err |-> OtherError("invalid character"), val |-> target]

\* the form binding's mapping of the query parameters onto the target
mapForm(query, target) ==
    IF query = <<>> THEN target ELSE [target EXCEPT !.Test = query[1]]

\* binding:"required"
validate(val) ==
    IF val.Test = ""
    THEN ValidationError(<<[field |-> "Test", rule |-> "required"]>>)
    ELSE NoError

\* gin's binding.Default(method, contentType)
DefaultBinding(method, ctype) ==
    IF method = "GET" THEN "form"
    ELSE IF ctype = "application/json" THEN "json"
    ELSE "form"

\* the target is a pointer to a struct
IsStruct(target) == "Test" \in DOMAIN target

\* encoding/json's error for a JSON object decoded into a value that is no
\* struct and no map
UnmarshalTypeError == "cannot unmarshal object into Go value"

\* a form binding that accepts a POST whose body is nil
ShouldBindNilBodyAccepted(method, ctype, query, body, target) ==
    IF DefaultBinding(method, ctype) = "json"
    THEN IF body = <<>>
         THEN [err |-> OtherError("invalid request"), val |-> target, body |-> body]
         ELSE LET d == decodeJSON(Remaining(body[1]), target) IN
              [err |-> IF d.err.kind = "none" THEN validate(d.val) ELSE d.err,
               val |-> d.val,
               body |-> <<Drained(body[1])>>]
    ELSE LET v == mapForm(query, target) IN
         [err |-> validate(v), val |-> v, body |-> body]

\* ctx.ShouldBind(target): the error, the target and the request body after it.
\* The JSON binding reads the body through a decoder, which drains a body of
\* this size; the form binding reads no body without a form content type, but
\* refuses a POST whose body is nil.
ShouldBind(method, ctype, query, body, target) ==
    IF DefaultBinding(method, ctype) = "json"
    THEN IF body = <<>>
         THEN [err |-> OtherError("invalid request"), val |-> target, body |-> body]
         ELSE IF ~IsStruct(target)
         THEN LET d == decodeJSON(Remaining(body[1]), ZeroTarget) IN
              [err |-> IF d.err.kind = "none" THEN OtherError(UnmarshalTypeError)
                       ELSE d.err,
               val |-> target,
               body |-> <<Drained(body[1])>>]
         ELSE LET d == decodeJSON(Remaining(body[1]), target) IN
              [err |-> IF d.err.kind = "none" THEN validate(d.val) ELSE d.err,
               val |-> d.val,
               body |-> <<Drained(body[1])>>]
    ELSE IF method # "GET" /\ body = <<>>
         THEN [err |-> OtherError("missing form body"), val |-> target, body |-> body]
         ELSE IF ~IsStruct(target)
         THEN [err |-> NoError, val |-> target, body |-> body]
         ELSE LET v == mapForm(query, target) IN
              [err |-> validate(v), val |-> v, body |-> body]

\* ---- package bind: options -----------------------------------------------
KeyNames == {"body", "body2"}

\* defaultBindOpts
defaultBindOpts ==
    [key |-> defaultKey, abort |-> defaultAbort, response |-> defaultResponse,
     detail |-> defaultDetail, code |-> defaultCode]

\* the option mutators: WithKey(key), WithAbort(), WithResponse(),
\* WithResponseCode(code), WithResponseDetail()
Option(name, key, code) == [name |-> name, key |-> key, code |-> code]

Options ==
    {Option("WithKey", "body2", 0), Option("WithAbort", "", 0),
     Option("WithResponse", "", 0), Option("WithResponseCode", "", StatusForbidden),
     Option("WithResponseDetail", "", 0)}

\* f(bo) for an option mutator f
ApplyOption(bo, o) ==
    CASE o.name = "WithKey" -> [bo EXCEPT !.key = o.key]
      [] o.name = "WithAbort" -> [bo EXCEPT !.abort = TRUE]
      [] o.name = "WithResponse" -> [bo EXCEPT !.response = TRUE]
      [] o.name = "WithResponseCode" -> [bo EXCEPT !.response = TRUE, !.code = o.code]
      [] o.name = "WithResponseDetail" -> [bo EXCEPT !.response = TRUE, !.detail = TRUE]

RECURSIVE ApplyOptions(_, _)
ApplyOptions(bo, opts) ==
    IF opts = <<>> THEN bo
    ELSE ApplyOptions(ApplyOption(bo, Head(opts)), Tail(opts))

\* a getBindOpts that starts from the values the package was loaded with
getBindOptsInitial(opts) ==
    ApplyOptions([key |-> "body", abort |-> FALSE, response |-> FALSE,
                  detail |-> FALSE, code |-> StatusBadRequest], opts)

\* getBindOpts(opts...)
getBindOpts(opts) == ApplyOptions(defaultBindOpts, opts)

\* which policy an option mutator asks for
PolicyOption(o) ==
    IF o.name = "WithAbort" THEN "abort"
    ELSE IF o.name \in {"WithResponse", "WithResponseCode", "WithResponseDetail"} THEN "respond"
    ELSE "none"

\* the policy asked for by the last policy option of an option list
RECURSIVE LastPolicyOption(_)
LastPolicyOption(opts) ==
    IF opts = <<>> THEN "none"
    ELSE IF PolicyOption(opts[Len(opts)]) # "none" THEN PolicyOption(opts[Len(opts)])
    ELSE LastPolicyOption(SubSeq(opts, 1, Len(opts) - 1))

\* As(pv, opts...) and To(s, opts...): the handler holds the options built now
BindHandler(kind, opts) ==
    [kind |-> kind, lvl |-> 0, bo |-> getBindOpts(opts), last |-> LastPolicyOption(opts),
     t |-> "none"]

\* ---- package bind: the prototype given to To ------------------------------
\* what callers pass as s: TestingBody{}, &TestingBody{} and a string
Prototypes == {ZeroTarget, [elem |-> ZeroTarget], [str |-> ""]}

\* reflect.TypeOf(s).Kind()
Kind(s) ==
    IF "Test" \in DOMAIN s THEN "struct"
    ELSE IF "elem" \in DOMAIN s THEN "ptr"
    ELSE "string"

\* a To that accepts every prototype
ToNeverPanics(s) == FALSE

\* To(s, opts...) panics instead of returning a handler
ToPanics(s) == Kind(s) # "struct"

\* panic(fmt.Errorf("BindTo() must be given a struct, received %s", t.Kind()))
PanicReceived(s) ==
    IF Kind(s) = "ptr" THEN "panic: BindTo() must be given a struct, received ptr"
    ELSE "panic: BindTo() must be given a struct, received string"

\* the handler To(s, opts...) returns holds the type of s
ToHandler(s, opts) == [BindHandler("To", opts) EXCEPT !.t = Kind(s)]

\* reflect.New(t).Interface(): a pointer to a new zero value of the type
reflectNew(t) == IF t = "struct" THEN ZeroTarget ELSE [zero |-> t]


\* ---- package bind: bindHandler -------------------------------------------
\* the branch of bindHandler taken on a bind error
PolicyOf(opts) ==
    IF opts.abort THEN "abort"
    ELSE IF opts.response THEN "respond"
    ELSE "silent"

\* an error response that always answers 400
ResponseCodeFixed(opts) == StatusBadRequest

\* the status of the error response
ResponseCode(opts) == opts.code

\* the body of the error response: AbortWithStatusJSON's value, or none
ResponseJSON(opts, err) ==
    IF err.kind = "validation" /\ opts.detail
    THEN <<[code |-> "validation_error", errors |-> err.fields]>>
    ELSE <<>>

\* a bindHandler that never puts the buffered bytes back
BodyNotRestored(outcome, policy, entry, body, after) ==
    IF outcome = "readfail" THEN <<Drained(entry[1])>> ELSE after

\* c.Request.Body when bindHandler returns.  entry is the body it was called
\* with, body the bytes it buffered, after the body ShouldBind left behind.
BodyAfterBind(outcome, policy, entry, body, after) ==
    CASE outcome = "readfail" -> <<Drained(entry[1])>>
      [] outcome = "bound" -> IF entry # <<>> THEN <<NewReader(body)>> ELSE entry
      [] outcome = "bindfail" /\ policy = "abort" -> <<NewReader(body)>>
      [] OTHER -> after

\* an allocation that hands out the first instance again
NewShared(h) == 1

\* the address of a newly allocated instance
New(h) == Len(h) + 1

\* the instances after v was written to the one at address p
Put(h, p, v) == IF p > Len(h) THEN Append(h, v) ELSE [h EXCEPT ![p] = v]

\* ctx.Set(opts.key, target) for the instance at ptr
StoreTarget(store, opts, ptr) == [store EXCEPT ![opts.key] = ptr]

\* a bindHandler that goes on to bind after a failed read
OutcomeReadFailureIgnored(readFail, err) ==
    IF err.kind # "none" THEN "bindfail" ELSE "bound"

\* how far bindHandler gets: it returns when io.ReadAll failed, else ShouldBind
\* decides
Outcome(readFail, err) ==
    IF readFail THEN "readfail"
    ELSE IF err.kind # "none" THEN "bindfail"
    ELSE "bound"

\* bindHandler(ctx, target, opts)
bindHandler(target, opts) ==
    LET entry    == reqBody
        readFail == entry # <<>> /\ entry[1].broken
        body     == IF entry # <<>> THEN Remaining(entry[1]) ELSE <<>>
        copy     == IF entry # <<>> THEN <<NewReader(body)>> ELSE entry
        b        == ShouldBind(reqMethod, reqCType, reqQuery, copy, target)
        outcome  == Outcome(readFail, b.err)
        policy   == PolicyOf(opts)
        ptr      == New(heap)
    IN  /\ reqBody' = BodyAfterBind(outcome, policy, entry, body, b.body)
        /\ heap' = Put(heap, ptr, IF outcome = "readfail" THEN target ELSE b.val)
        /\ binds' = Append(binds, [at |-> Current, outcome |-> outcome,
                                   err |-> IF outcome = "readfail" THEN NoError ELSE b.err,
                                   nobody |-> entry = <<>>, readerr |-> readFail])
        /\ keys' = IF outcome = "bound" THEN StoreTarget(keys, opts, ptr) ELSE keys
        /\ IF outcome = "bindfail" /\ policy = "abort"
           THEN /\ ctxErrors' = Append(ctxErrors, b.err)
                /\ InvokedAbort
                /\ UNCHANGED respVars
           ELSE IF outcome = "bindfail" /\ policy = "respond"
           THEN /\ status' = ResponseCode(opts)
                /\ written' = TRUE
                /\ respBody' = respBody \o ResponseJSON(opts, b.err)
                /\ InvokedAbort
                /\ UNCHANGED ctxErrors
           ELSE /\ Invoked
                /\ UNCHANGED <<ctxErrors, respVars>>

\* the handler To(s, opts...) returns: a new zero instance of s's type
To ==
    /\ HasNext
    /\ NextHandler.kind = "To"
    /\ bindHandler(reflectNew(NextHandler.t), NextHandler.bo)
    /\ UNCHANGED <<pc, route, reqVars, frames, reqLoggers, header, seen,
                   zlogVars, out, bindVars, detail, calls>>

\* the handler As(pv, opts...) returns: the instance pv() provides
As ==
    /\ HasNext
    /\ NextHandler.kind = "As"
    /\ bindHandler(ProvidedTarget, NextHandler.bo)
    /\ UNCHANGED <<pc, route, reqVars, frames, reqLoggers, header, seen,
                   zlogVars, out, bindVars, detail, calls>>

\* the route's last handler: it reads the request body and answers 200
Endpoint ==
    /\ HasNext
    /\ NextHandler.kind = "Endpoint"
    /\ seen' = Append(seen, BodyBytes(reqBody))
    /\ reqBody' = IF reqBody = <<>> THEN reqBody ELSE <<Drained(reqBody[1])>>
    /\ status' = StatusOK
    /\ Invoked
    /\ UNCHANGED <<pc, route, reqVars, frames, reqLoggers, header, written, respBody,
                   keys, heap, ctxErrors, binds, zlogVars, out, bindVars, detail, calls>>

\* ---- the binding specification -------------------------------------------
\* e.POST("", To(bodyType, opts...), endpoint), or with a second
\* To(bodyType, WithKey("body2")) before the endpoint
RegisterBind ==
    /\ pc = "setup"
    /\ \E kind \in {"To", "As"}, opts \in SeqsUpTo(Options, MaxOpts), second \in BOOLEAN,
          s \in Prototypes :
         /\ ~ToPanics(s)
         /\ route' = <<IF kind = "To" THEN ToHandler(s, opts) ELSE BindHandler(kind, opts)>>
                    \o (IF second THEN <<ToHandler(s, <<Option("WithKey", "body2", 0)>>)>>
                        ELSE <<>>)
                    \o <<Handler("Endpoint", 0, NoOpts)>>
    /\ pc' = "idle"
    /\ UNCHANGED <<ctxVars, zlogVars, out, bindVars, detail>>

\* To(s, opts...) with an s that is no struct: the panic ends the program
\* before any route is registered
ToPanic ==
    /\ pc = "setup"
    /\ \E s \in Prototypes :
         /\ ToPanics(s)
         /\ pc' = PanicReceived(s)
    /\ UNCHANGED <<route, ctxVars, zlogVars, out, bindVars, detail>>

\* e.ServeHTTP(w, req): any method, content type, query and body; the body is
\* nil, or a reader of the bytes sent, or a reader that fails after it yielded them
ServeBind ==
    /\ pc = "idle"
    /\ pc' = "serving"
    /\ handlers' = route
    /\ \E method \in {"GET", "POST"}, ctype \in {"", "application/json"},
          query \in {<<>>, <<"a">>}, data \in Bodies, body \in {"nil", "reader", "broken"} :
         /\ body = "nil" => data = <<>>
         /\ ResetContext(method, ctype, query,
                         IF body = "nil" THEN <<>> ELSE <<Reader(data, body = "broken")>>,
                         data)
    /\ UNCHANGED <<route, zlogVars, out, bindVars, detail>>

NextBind ==
    \/ RegisterBind
    \/ ToPanic
    \/ ServeBind
    \/ To
    \/ As
    \/ Endpoint
    \/ ServeDone
    \/ Release

BindSpec == Init /\ [][NextBind]_vars

-----------------------------------------------------------------------------
\* ---- the instances of consecutive requests --------------------------------
\* The instances live as long as something holds them: here they are kept
\* from one request to the next, and heap[1] is bodyType, the prototype the
\* caller keeps and gives to To.

\* a handler that takes the pointer stored under "body" and writes through it
Write ==
    /\ HasNext
    /\ NextHandler.kind = "Write"
    /\ heap' = IF keys["body"] # 0 THEN [heap EXCEPT ![keys["body"]].Test = "w"] ELSE heap
    /\ Invoked
    /\ UNCHANGED <<pc, route, reqVars, frames, reqLoggers, header, respVars,
                   reqBody, keys, ctxErrors, seen, binds, zlogVars, out, bindVars,
                   detail, calls>>

\* bodyType := TestingBody{}; e.POST("", To(bodyType), To(bodyType, WithKey("body2")), ...)
\* with or without the second To and the writing handler
RegisterFresh ==
    /\ pc = "setup"
    /\ \E second \in BOOLEAN, writer \in BOOLEAN :
         route' = <<ToHandler(ZeroTarget, <<>>)>>
                    \o (IF second THEN <<ToHandler(ZeroTarget, <<Option("WithKey", "body2", 0)>>)>>
                        ELSE <<>>)
                    \o (IF writer THEN <<Handler("Write", 0, NoOpts)>> ELSE <<>>)
                    \o <<Handler("Endpoint", 0, NoOpts)>>
    /\ heap' = <<ZeroTarget>>
    /\ pc' = "idle"
    /\ UNCHANGED <<reqVars, index, frames, ran, reqLoggers, header, respVars,
                   reqBody, keys, ctxErrors, seen, binds, calls,
                   zlogVars, out, bindVars, detail>>

\* e.ServeHTTP(w, req), as long as the instances kept are at most MaxInstances
ServeFresh ==
    /\ pc = "idle"
    /\ Len(heap) <= MaxInstances
    /\ pc' = "serving"
    /\ handlers' = route
    /\ \E method \in {"GET", "POST"}, ctype \in {"", "application/json"},
          query \in {<<>>, <<"a">>}, data \in Bodies, body \in {"nil", "reader"} :
         /\ body # "reader" => data = <<>>
         /\ ResetRequest(method, ctype, query,
                         IF body = "nil" THEN <<>> ELSE <<Reader(data, FALSE)>>,
                         data)
    /\ UNCHANGED <<route, heap, zlogVars, out, bindVars, detail>>

\* the context goes back into the pool; the instances stay
ReleaseFresh ==
    /\ pc = "done"
    /\ pc' = "idle"
    /\ ResetRequest("GET", "", <<>>, <<>>, <<>>)
    /\ handlers' = <<>>
    /\ out' = <<>>
    /\ UNCHANGED <<route, heap, zlogVars, bindVars, detail>>

NextFresh ==
    \/ RegisterFresh
    \/ ServeFresh
    \/ To
    \/ Write
    \/ Endpoint
    \/ ServeDone
    \/ ReleaseFresh

FreshSpec == Init /\ [][NextFresh]_vars

-----------------------------------------------------------------------------
\* ---- the package defaults -------------------------------------------------
\* how many of the five defaults differ from the values of bind.go:25-31
Departures(key, abort, response, det, code) ==
    (IF key # "body" THEN 1 ELSE 0) + (IF abort THEN 1 ELSE 0)
      + (IF response THEN 1 ELSE 0) + (IF det THEN 1 ELSE 0)
      + (IF code # StatusBadRequest THEN 1 ELSE 0)

\* the program calls the setters before, between and after registering routes
\* and serving requests
CanSetDefault == pc \in {"setup", "idle"}

SetDefaultKey ==
    /\ CanSetDefault
    /\ \E key \in KeyNames :
         /\ Departures(key, defaultAbort, defaultResponse, defaultDetail, defaultCode)
               <= MaxChanged
         /\ defaultKey' = key
    /\ UNCHANGED <<pc, route, ctxVars, zlogVars, out, detail,
                   defaultAbort, defaultResponse, defaultDetail, defaultCode>>

SetDefaultAbort ==
    /\ CanSetDefault
    /\ \E abort \in BOOLEAN :
         /\ Departures(defaultKey, abort, defaultResponse, defaultDetail, defaultCode)
               <= MaxChanged
         /\ defaultAbort' = abort
    /\ UNCHANGED <<pc, route, ctxVars, zlogVars, out, detail,
                   defaultKey, defaultResponse, defaultDetail, defaultCode>>

SetDefaultResponse ==
    /\ CanSetDefault
    /\ \E response \in BOOLEAN :
         /\ Departures(defaultKey, defaultAbort, response, defaultDetail, defaultCode)
               <= MaxChanged
         /\ defaultResponse' = response
    /\ UNCHANGED <<pc, route, ctxVars, zlogVars, out, detail,
                   defaultKey, defaultAbort, defaultDetail, defaultCode>>

SetDefaultDetail ==
    /\ CanSetDefault
    /\ \E det \in BOOLEAN :
         /\ Departures(defaultKey, defaultAbort, defaultResponse, det, defaultCode)
               <= MaxChanged
         /\ defaultDetail' = det
    /\ UNCHANGED <<pc, route, ctxVars, zlogVars, out, detail,
                   defaultKey, defaultAbort, defaultResponse, defaultCode>>

SetDefaultCode ==
    /\ CanSetDefault
    /\ \E code \in {StatusBadRequest, StatusForbidden} :
         /\ Departures(defaultKey, defaultAbort, defaultResponse, defaultDetail, code)
               <= MaxChanged
         /\ defaultCode' = code
    /\ UNCHANGED <<pc, route, ctxVars, zlogVars, out, detail,
                   defaultKey, defaultAbort, defaultResponse, defaultDetail>>

\* the option mutators the routes of this specification are built with
DefaultsOptions ==
    {Option("WithKey", "body", 0), Option("WithKey", "body2", 0), Option("WithAbort", "", 0)}

\* e.POST("", To(bodyType, opts...), endpoint) or the same with As.  The handler
\* is recorded with the option list it was given and with the defaults of the
\* moment (made).
RegisterDefaults ==
    /\ pc = "setup"
    /\ \E kind \in {"To", "As"}, opts \in SeqsUpTo(DefaultsOptions, MaxOpts) :
         route' = <<(IF kind = "To" THEN ToHandler(ZeroTarget, opts)
                     ELSE BindHandler(kind, opts))
                      @@ [given |-> opts, made |-> defaultBindOpts]>>
                    \o <<Handler("Endpoint", 0, NoOpts)>>
    /\ pc' = "idle"
    /\ UNCHANGED <<ctxVars, zlogVars, out, bindVars, detail>>

\* e.ServeHTTP(w, req) for a POST with a JSON body: one that binds and one
\* that fails to decode
ServeDefaults ==
    /\ pc = "idle"
    /\ pc' = "serving"
    /\ handlers' = route
    /\ \E data \in {<<"{", "a", "}">>, <<"{">>} :
         ResetContext("POST", "application/json", <<>>, <<Reader(data, FALSE)>>, data)
    /\ UNCHANGED <<route, zlogVars, out, bindVars, detail>>

NextDefaults ==
    \/ SetDefaultKey
    \/ SetDefaultAbort
    \/ SetDefaultResponse
    \/ SetDefaultDetail
    \/ SetDefaultCode
    \/ RegisterDefaults
    \/ ServeDefaults
    \/ To
    \/ As
    \/ Endpoint
    \/ ServeDone
    \/ Release

DefaultsSpec == Init /\ [][NextDefaults]_vars

-----------------------------------------------------------------------------
\* ---- package errors ------------------------------------------------------
\* An error is the chain of the errors it wraps, outermost first; nil is <<>>.
\* ErrNoDetail is the package's sentinel.
ErrNoDetail == <<"error: no detail">>

Errs == {<<>>, ErrNoDetail, <<"lookup failed">> \o ErrNoDetail, <<"boom">>}

\* the statuses and short codes the callers pass
ErrStatuses == {StatusBadRequest, StatusNotFound}

ErrCodes == {"bad_request", "not_found"}

\* errors.Is(err, target)
Is(err, target) == \E k \in 1..Len(err) : SubSeq(err, k, Len(err)) = target

\* a helper that adds the error text whenever detail is on
ErrorBodyLeaky(err, code) ==
    IF detail THEN [code |-> code, error |-> err] ELSE [code |-> code]

\* the gin.H AbortWithError sends; the "error" value is the error's description
ErrorBody(err, code) ==
    IF detail /\ ~Is(err, ErrNoDetail)
    THEN [code |-> code, error |-> err]
    ELSE [code |-> code]

\* AbortWithError(ctx, err, status, code), called by the handler at Current as fn
AbortWithError(fn, err, st, code) ==
    IF err # <<>>
    THEN /\ status' = st
         /\ written' = TRUE
         /\ respBody' = Append(respBody, ErrorBody(err, code))
         /\ InvokedAbort
         /\ calls' = Append(calls, [fn |-> fn, err |-> err, status |-> st,
                                    code |-> code, ret |-> TRUE])
    ELSE /\ Invoked
         /\ calls' = Append(calls, [fn |-> fn, err |-> err, status |-> st,
                                    code |-> code, ret |-> FALSE])
         /\ UNCHANGED respVars

\* AbortWith(ctx, status, code)
AbortWith(st, code) == AbortWithError("AbortWith", ErrNoDetail, st, code)

\* a handler of the application:
\* if errors.AbortWithError(ctx, err, status, code) { return }
Checked ==
    /\ HasNext
    /\ NextHandler.kind = "Checked"
    /\ \E err \in Errs, st \in ErrStatuses, code \in ErrCodes :
         AbortWithError("AbortWithError", err, st, code)
    /\ UNCHANGED <<pc, route, reqVars, frames, reqLoggers, header, bindOut,
                   zlogVars, out, bindVars, detail>>

\* a handler of the application: errors.AbortWith(ctx, status, code)
Denied ==
    /\ HasNext
    /\ NextHandler.kind = "Denied"
    /\ \E st \in ErrStatuses, code \in ErrCodes : AbortWith(st, code)
    /\ UNCHANGED <<pc, route, reqVars, frames, reqLoggers, header, bindOut,
                   zlogVars, out, bindVars, detail>>

\* SetErrorDetailOutput(output)
SetErrorDetailOutput ==
    /\ pc \in {"setup", "idle"}
    /\ \E output \in BOOLEAN : detail' = output
    /\ UNCHANGED <<pc, route, ctxVars, zlogVars, out, bindVars>>

\* ---- the error helper's specification ------------------------------------
\* a route of handlers that call the helper, then the endpoint
RegisterErr ==
    /\ pc = "setup"
    /\ \E hs \in SeqsUpTo({Handler("Checked", 0, NoOpts), Handler("Denied", 0, NoOpts)},
                          MaxChecks) :
         /\ hs # <<>>
         /\ route' = hs \o <<Handler("Endpoint", 0, NoOpts)>>
    /\ pc' = "idle"
    /\ UNCHANGED <<ctxVars, zlogVars, out, bindVars, detail>>

ServeErr ==
    /\ pc = "idle"
    /\ pc' = "serving"
    /\ handlers' = route
    /\ ResetContext("GET", "", <<>>, <<>>, <<>>)
    /\ UNCHANGED <<route, zlogVars, out, bindVars, detail>>

NextErr ==
    \/ RegisterErr
    \/ SetErrorDetailOutput
    \/ ServeErr
    \/ Checked
    \/ Denied
    \/ Endpoint
    \/ ServeDone
    \/ Release

ErrSpec == Init /\ [][NextErr]_vars

-----------------------------------------------------------------------------
\* Properties of the logging middleware (specification Spec)

\* the chain of a request through Logger has returned to the engine
LogReturned == pc = "serving" /\ ~HasNext /\ frames = <<>>

\* Logger's part before c.Next() has run
LoggerEntered == pc = "serving" /\ ran # <<>>

\* the records Logger itself wrote
OwnRecords == SelectSeq(out, LAMBDA r : r.msg \in {"REQ", "RES"})

RecordsOf(msg) == SelectSeq(out, LAMBDA r : r.msg = msg)

Max(S) == CHOOSE x \in S : \A y \in S : y <= x

RanSet == {ran[i] : i \in 1..Len(ran)}

\* the threshold given by the last of Logger and SetLevel invoked before position p
ThresholdAt(p) ==
    LET setters == {q \in RanSet : q < p /\ handlers[q + 1].kind \in {"Logger", "SetLevel"}}
    IN  handlers[Max(setters) + 1].lvl

\* C1 (as stated): once the chain has returned, Logger has written exactly two
\* records of its own, the request-start record and then the response record,
\* both tagged with the identifier in the X-Request-ID header.
C1_ExactlyTwoRecords ==
    LogReturned =>
        /\ Len(OwnRecords) = 2
        /\ OwnRecords[1].msg = "REQ"
        /\ OwnRecords[2].msg = "RES"
        /\ \A i \in 1..2 : OwnRecords[i].id = header

\* C1 (amended): once the chain has returned, Logger has written at most one
\* request-start record and at most one response record, in that order, each
\* tagged with the identifier in the X-Request-ID header; both are written
\* exactly when the request level passes the threshold given to Logger and the
\* response level passes the threshold of the logger stored at that moment.
C1_AtMostTwoRecords ==
    LogReturned =>
        /\ header \in Ids
        /\ Len(RecordsOf("REQ")) <= 1
        /\ Len(RecordsOf("RES")) <= 1
        /\ \A i \in 1..Len(OwnRecords) : OwnRecords[i].id = header
        /\ Len(OwnRecords) = 2 => OwnRecords[1].msg = "REQ" /\ OwnRecords[2].msg = "RES"
        /\ Len(OwnRecords) = 2 <=>
              /\ globalRequestLevel >= handlers[1].lvl
              /\ globalResponseLevel >= GetLogger(reqLoggers).level

\* C1 witness: a chain that a downstream handler aborted has returned with both records
C1_Witness ==
    /\ LogReturned
    /\ IsAborted
    /\ Len(OwnRecords) = 2

\* C2: whether the request-start record is written is decided with the threshold
\* given to Logger, whatever SetLevel calls follow; a downstream record is
\* written exactly when its level passes the threshold of the last Logger or
\* SetLevel invoked before it, and so is the response record.
C2_OverrideOnlyLater ==
    LoggerEntered =>
        /\ Len(RecordsOf("REQ")) = 1 <=> globalRequestLevel >= handlers[1].lvl
        /\ \A p \in RanSet :
              handlers[p + 1].kind = "LogTest" =>
                 ((\E i \in 1..Len(out) : out[i].by = p /\ out[i].msg = "TEST")
                     <=> handlers[p + 1].lvl >= ThresholdAt(p))
        /\ LogReturned =>
              (Len(RecordsOf("RES")) = 1
                  <=> globalResponseLevel >= ThresholdAt(Len(handlers)))

\* C2 witness: Logger(Warn) withheld the request-start record, SetLevel lowered the
\* threshold, and the downstream record and the response record were written
C2_Witness ==
    /\ LogReturned
    /\ handlers[1].lvl = WarnLevel
    /\ \E p \in RanSet : handlers[p + 1].kind = "SetLevel" /\ handlers[p + 1].lvl < WarnLevel
    /\ Len(RecordsOf("REQ")) = 0
    /\ Len(RecordsOf("TEST")) = 1
    /\ Len(RecordsOf("RES")) = 1

\* C3: once Logger has stored a logger, every logger stored for the request, after
\* any sequence of SetLevel calls, carries the identifier of the X-Request-ID
\* header, and the threshold of the current one is the level of the most recent
\* SetLevel call (the level given to Logger when there was none).
C3_OverrideKeepsId ==
    LoggerEntered =>
        /\ header \in Ids
        /\ reqLoggers # <<>>
        /\ \A i \in 1..Len(reqLoggers) : reqLoggers[i].id = header
        /\ GetLogger(reqLoggers).level = ThresholdAt(Len(handlers))

\* C3 witness: two SetLevel calls with different levels have run after Logger
C3_Witness ==
    /\ LoggerEntered
    /\ Len(reqLoggers) = 3
    /\ reqLoggers[2].level # reqLoggers[3].level
    /\ reqLoggers[1].level # reqLoggers[3].level
    /\ GetLogger(reqLoggers).id = header

\* the process-wide levels are the ones the package starts with
DefaultLevels == globalRequestLevel = TraceLevel /\ globalResponseLevel = DebugLevel

\* the levels of the SetLevel handlers invoked, in the order of the chain
OverridesRan ==
    LET setters == SelectSeq(ran, LAMBDA q : handlers[q + 1].kind = "SetLevel")
    IN  [i \in 1..Len(setters) |-> handlers[setters[i] + 1].lvl]

\* C15: a request-start record in the output was written at the process-wide
\* request level, which is then at or above the threshold given to Logger; a
\* response record was written at the process-wide response level, which is
\* then at or above the threshold of the logger stored when the chain
\* returned.  With Logger(Warn) and the default levels a chain without SetLevel
\* returns with neither record, and a chain whose only SetLevel is
\* SetLevel(Debug) returns with the response record alone.
C15_OwnRecordsFiltered ==
    /\ \A i \in 1..Len(out) :
          /\ out[i].msg = "REQ" =>
                /\ out[i].level = globalRequestLevel
                /\ out[i].level >= handlers[1].lvl
          /\ out[i].msg = "RES" =>
                /\ out[i].level = globalResponseLevel
                /\ out[i].level >= reqLoggers[Len(reqLoggers)].level
                /\ reqLoggers[Len(reqLoggers)].level = ThresholdAt(Len(handlers))
    /\ LogReturned /\ DefaultLevels /\ handlers[1].lvl = WarnLevel =>
          /\ OverridesRan = <<>> => OwnRecords = <<>>
          /\ OverridesRan = <<DebugLevel>> =>
                /\ Len(OwnRecords) = 1
                /\ OwnRecords[1].msg = "RES"

\* C15 witness: with the default levels the chain Logger(Warn), SetLevel(Debug)
\* has returned and the output holds the response record and nothing else
C15_Witness ==
    /\ LogReturned
    /\ DefaultLevels
    /\ Len(handlers) = 2
    /\ handlers[1].lvl = WarnLevel
    /\ handlers[2].kind = "SetLevel" /\ handlers[2].lvl = DebugLevel
    /\ Len(out) = 1
    /\ out[1].msg = "RES" /\ out[1].level = DebugLevel /\ out[1].id = header

-----------------------------------------------------------------------------
\* Properties of the bind middleware (specification BindSpec)

\* a bind handler has just returned and no other handler has run since
AfterBind ==
    /\ pc = "serving"
    /\ binds # <<>>
    /\ ran[Len(ran)] = binds[Len(binds)].at

LastBind == binds[Len(binds)]

\* the options of the bind handler at position p of the chain
OptsAt(p) == handlers[p + 1].bo

\* the i-th bind handler invoked met a decode or validation failure under policy
FailedUnder(i, policy) ==
    /\ binds[i].outcome = "bindfail"
    /\ PolicyOf(OptsAt(binds[i].at)) = policy

\* the keys the bind handlers invoked before the i-th one have stored under
KeysBefore(i) == {OptsAt(binds[j].at).key : j \in {k \in 1..(i - 1) : binds[k].outcome = "bound"}}

\* the i-th bind handler stored nothing: each key holds what it held before
StoredNothing(i) ==
    \A k \in KeyNames : keys[k] # 0 => k \in KeysBefore(i) /\ keys[k] < i

\* C4: when a bind handler has decoded and validated, the populated target is
\* stored under its key and the body the next handler reads has the bytes the
\* client sent; a second To with the same target shape then binds the same
\* value, and the endpoint reads the same bytes.
C4_SuccessRestoresBody ==
    /\ AfterBind /\ LastBind.outcome = "bound" =>
          /\ keys[OptsAt(LastBind.at).key] = Len(heap)
          /\ validate(heap[Len(heap)]) = NoError
          /\ ~IsAborted
          /\ (\A i \in 1..Len(binds) : binds[i].outcome = "bound") => BodyBytes(reqBody) = sent
    /\ pc = "serving" /\ Len(binds) = 2 /\ binds[1].outcome = "bound"
          /\ handlers[1].kind = "To" /\ handlers[2].kind = "To" =>
          /\ binds[2].outcome = "bound"
          /\ heap[2] = heap[1]
    /\ pc = "serving" /\ seen # <<>> /\ (\A i \in 1..Len(binds) : binds[i].outcome = "bound") =>
          seen[1] = sent

\* C4 witness: two bind handlers have bound the same JSON body and the endpoint
\* has read it again
C4_Witness ==
    /\ pc = "serving"
    /\ reqCType = "application/json" /\ reqMethod = "POST"
    /\ Len(binds) = 2
    /\ binds[1].outcome = "bound" /\ binds[2].outcome = "bound"
    /\ keys["body"] = 1 /\ keys["body2"] = 2
    /\ heap[1].Test = "a" /\ heap[2].Test = "a"
    /\ seen = <<sent>>
    /\ Len(sent) = 3

\* the policy whose effects the context shows after a failed bind
PolicyShown ==
    IF ctxErrors # <<>> THEN "abort" ELSE IF written THEN "respond" ELSE "silent"

\* C5: after a decode or validation failure the effects of exactly one policy
\* show, and when both the abort option and a respond option were given to the
\* constructor, it is the policy of the option given last.
C5_LastPolicyOptionWins ==
    AfterBind /\ LastBind.outcome = "bindfail" /\ LastBind.at = 0 =>
        /\ ~(ctxErrors # <<>> /\ written)
        /\ IsAborted <=> PolicyShown # "silent"
        /\ handlers[1].bo.abort /\ handlers[1].bo.response =>
              PolicyShown = handlers[1].last

\* C6: under the silent policy a decode or validation failure leaves the body
\* with the bytes the client sent, stores nothing, does not abort, attaches no
\* error and writes no response.
C6_SilentRestoresBody ==
    AfterBind /\ FailedUnder(Len(binds), "silent") /\ LastBind.at = 0 =>
        /\ BodyBytes(reqBody) = sent
        /\ StoredNothing(1)
        /\ ~IsAborted
        /\ ctxErrors = <<>>
        /\ ~written /\ respBody = <<>> /\ status = StatusOK

\* C7: under the abort policy a decode or validation failure restores the body
\* to the bytes it had, aborts the chain so that no later handler runs, attaches
\* the error, stores nothing and writes neither a status nor a body.
C7_AbortPolicy ==
    \A i \in 1..Len(binds) :
        pc \in {"serving", "done"} /\ FailedUnder(i, "abort") =>
            /\ i = Len(binds)
            /\ ran[Len(ran)] = binds[i].at
            /\ index >= abortIndex
            /\ ctxErrors = <<binds[i].err>>
            /\ binds[i].err.kind # "none"
            /\ reqBody # <<>> /\ reqBody[1].pos = 0
            /\ (\A j \in 1..(i - 1) : binds[j].outcome = "bound") => BodyBytes(reqBody) = sent
            /\ StoredNothing(i)
            /\ ~written /\ respBody = <<>> /\ status = StatusOK
            /\ seen = <<>>

\* C7 witness: the first of two bind handlers met a validation failure under the
\* abort policy, the body is readable again, and ServeHTTP returned without the
\* second bind handler and the endpoint having run
C7_Witness ==
    /\ pc = "done"
    /\ Len(binds) = 1
    /\ FailedUnder(1, "abort")
    /\ Len(handlers) = 3
    /\ sent # <<>>
    /\ BodyBytes(reqBody) = sent
    /\ binds[1].err.kind = "validation"

\* C8: under the respond policy without detail a decode or validation failure
\* aborts the chain so that no later handler runs, sends the configured status
\* with an empty body, and stores nothing.
C8_RespondWithoutDetail ==
    \A i \in 1..Len(binds) :
        pc \in {"serving", "done"} /\ FailedUnder(i, "respond")
            /\ ~OptsAt(binds[i].at).detail =>
            /\ i = Len(binds)
            /\ ran[Len(ran)] = binds[i].at
            /\ index >= abortIndex
            /\ written
            /\ status = OptsAt(binds[i].at).code
            /\ status \in {StatusBadRequest, StatusForbidden}
            /\ respBody = <<>>
            /\ ctxErrors = <<>>
            /\ StoredNothing(i)
            /\ seen = <<>>

\* C8 witness: a handler built with WithResponseCode(403) answered 403 to a
\* malformed JSON body
C8_Witness ==
    /\ pc = "done"
    /\ Len(binds) = 1
    /\ FailedUnder(1, "respond")
    /\ ~handlers[1].bo.detail
    /\ binds[1].err.kind = "other"
    /\ status = StatusForbidden
    /\ written
    /\ Len(handlers) = 3

\* C9: under the respond policy with detail a failure that is no validation
\* failure is answered with the configured status and the JSON body
\* {"code":"binding_error","error":<the decoder's error text>}.
C9_BindingErrorBody ==
    AfterBind /\ FailedUnder(Len(binds), "respond") /\ OptsAt(LastBind.at).detail
        /\ LastBind.err.kind = "other" =>
        /\ status = OptsAt(LastBind.at).code
        /\ respBody = <<[code |-> "binding_error", error |-> LastBind.err.text]>>

\* the request was served with a nil body and the route's first bind handler
\* has just returned
NoBodyBound == AfterBind /\ LastBind.at = 0 /\ LastBind.nobody

Panicked == pc \notin {"setup", "idle", "serving", "done"}

GivenTarget(p) == IF handlers[p + 1].kind = "To" THEN ZeroTarget ELSE ProvidedTarget

-----------------------------------------------------------------------------
\* Properties of the instances To allocates (specification FreshSpec)

\* the step is the writing handler's write through the pointer stored under "body"
WrittenThrough(a) ==
    /\ HasNext
    /\ NextHandler.kind = "Write"
    /\ a = keys["body"]

\* what one step does to the instances and to the request-scoped storage
FreshStep ==
    /\ Len(heap') >= Len(heap)
    /\ \A a \in 1..Len(heap) : heap'[a] # heap[a] => WrittenThrough(a)
    /\ \A k \in KeyNames :
          keys'[k] # keys[k] /\ keys'[k] # 0 =>
              /\ keys'[k] > Len(heap)
              /\ keys'[k] = Len(heap')
              /\ validate(heap'[keys'[k]]) = NoError

\* the instances a request may reach are not the prototype and are pairwise
\* distinct
FreshState ==
    /\ route # <<>> => heap[1] = ZeroTarget
    /\ \A k \in KeyNames : keys[k] # 1
    /\ keys["body"] # 0 => keys["body"] # keys["body2"]

\* C13: every invocation of a handler built by To decodes into an instance
\* allocated by that invocation: no step but the write through the pointer a
\* handler obtained changes an instance that existed before, whether it was
\* allocated by an earlier request or by another To of the chain, the pointer
\* stored under a key is the address of the instance just allocated, and the
\* prototype keeps its value.
C13_FreshInstance == []FreshState /\ [][FreshStep]_vars

\* C13 witness: the first request's instance was written through and is kept;
\* in a later request two To handlers have bound the body into two further
\* instances, and the prototype still has its zero value
C13_Witness ==
    /\ pc = "serving"
    /\ Len(heap) = 5
    /\ heap[1] = ZeroTarget
    /\ heap[2].Test = "w"
    /\ keys["body"] = 4 /\ keys["body2"] = 5
    /\ heap[4].Test = "a" /\ heap[5].Test = "a"

-----------------------------------------------------------------------------
\* Properties of the binding options (specification DefaultsSpec)

\* the option mutators of the list given that are named name
Given(given, name) == SelectSeq(given, LAMBDA o : o.name = name)

\* the options a handler must work with: the defaults of the moment As / To was
\* called (made), overridden by the option mutators given, the later one
\* winning where two set the same field
ExpectedOpts(made, given) ==
    [key |-> IF Given(given, "WithKey") = <<>> THEN made.key
             ELSE Given(given, "WithKey")[Len(Given(given, "WithKey"))].key,
     abort |-> made.abort \/ Given(given, "WithAbort") # <<>>,
     response |-> \/ made.response
                  \/ \E i \in 1..Len(given) : PolicyOption(given[i]) = "respond",
     detail |-> made.detail \/ Given(given, "WithResponseDetail") # <<>>,
     code |-> IF Given(given, "WithResponseCode") = <<>> THEN made.code
              ELSE Given(given, "WithResponseCode")[Len(Given(given, "WithResponseCode"))].code]

\* C16: the options a handler holds are the defaults current when As or To was
\* called with the given option mutators applied in order, whatever the
\* defaults have been set to since and however many requests were served; each
\* request through the handler shows them: a bound target is stored under that
\* key, and a failed binding is treated by that policy with that status code.
C16_OptionsFixed ==
    /\ \A i \in 1..Len(route) :
          route[i].kind \in {"To", "As"} =>
              route[i].bo = ExpectedOpts(route[i].made, route[i].given)
    /\ pc \in {"serving", "done"} => handlers = route
    /\ AfterBind =>
          LET e == ExpectedOpts(handlers[1].made, handlers[1].given) IN
          /\ LastBind.outcome = "bound" =>
                /\ keys[e.key] = Len(heap)
                /\ \A k \in KeyNames \ {e.key} : keys[k] = 0
          /\ LastBind.outcome = "bindfail" =>
                /\ PolicyShown = PolicyOf(e)
                /\ PolicyOf(e) = "respond" => status = e.code
                /\ PolicyOf(e) # "respond" => status = StatusOK

\* C16 witness: the handler was built with WithKey("body2"), WithKey("body")
\* while the default policy was respond with code 403; the defaults were then
\* set back, and a request whose binding failed was still answered 403
C16_Witness ==
    /\ AfterBind
    /\ handlers[1].given = <<Option("WithKey", "body2", 0), Option("WithKey", "body", 0)>>
    /\ handlers[1].made.response /\ handlers[1].made.code = StatusForbidden
    /\ handlers[1].bo.key = "body"
    /\ ~defaultResponse /\ defaultCode = StatusBadRequest
    /\ defaultAbort /\ defaultKey = "body2"
    /\ LastBind.outcome = "bindfail"
    /\ written /\ status = StatusForbidden /\ ctxErrors = <<>>

-----------------------------------------------------------------------------
\* Properties of the error helper (specification ErrSpec)

\* err is, or wraps, the ErrNoDetail sentinel
NoDetailAsked(err) == \E k \in 1..Len(err) : err[k] = ErrNoDetail[1]

\* C10: AbortWithError returns true exactly when err is not nil.  When it
\* returned true the chain is aborted and one JSON body with the given code was
\* sent with the given status, with an "error" field exactly when the detail flag
\* is on and err is not the ErrNoDetail sentinel; as long as every call returned
\* false the context is untouched.  AbortWith always aborts, without "error" field.
C10_AbortWithError ==
    pc \in {"serving", "done"} =>
        /\ \A i \in 1..Len(calls) :
              /\ calls[i].ret <=> calls[i].err # <<>>
              /\ calls[i].fn = "AbortWith" => calls[i].ret
              /\ calls[i].ret =>
                    /\ i = Len(calls)
                    /\ index >= abortIndex
                    /\ written
                    /\ status = calls[i].status
                    /\ Len(respBody) = 1
                    /\ respBody[1].code = calls[i].code
                    /\ "error" \in DOMAIN respBody[1]
                          <=> (detail /\ ~NoDetailAsked(calls[i].err))
                    /\ calls[i].fn = "AbortWith" => "error" \notin DOMAIN respBody[1]
                    /\ seen = <<>>
        /\ (\A i \in 1..Len(calls) : ~calls[i].ret) =>
              /\ index < abortIndex
              /\ ~written
              /\ respBody = <<>>
              /\ status = StatusOK

\* C10 witness: with detail on, a call with a nil error returned false, the next
\* handler's call with an error that is not the sentinel sent its text, and
\* ServeHTTP returned without the endpoint
C10_Witness ==
    /\ pc = "done"
    /\ detail
    /\ Len(calls) = 2
    /\ ~calls[1].ret
    /\ calls[2].ret /\ calls[2].fn = "AbortWithError"
    /\ respBody = <<[code |-> "not_found", error |-> <<"boom">>]>>
    /\ status = StatusNotFound
    /\ seen = <<>>

=============================================================================
